---- MODULE Spec2Model ----
(***************************************************************************)
(* A model of ffi-toolkit: the ExternResult / ExternError envelope         *)
(* (src/result.rs), the release functions (src/memory.rs) and the string   *)
(* marshalling routines (src/string.rs).                                   *)
(*                                                                         *)
(* The heap is a function from allocation ids to cells.  An id is given    *)
(* out once: a freed cell keeps its id and the kind "freed".  Pointers are *)
(* integers: 0 is the null pointer, 1..MaxAddr are heap allocations and    *)
(* OptAddr is the producer's own storage of its Option<T> local.           *)
(***************************************************************************)
EXTENDS Integers, Sequences, FiniteSets, TLC

\* ------------------------------------------------------------ bounds
MaxAddr == 4
\* the longest text (in characters) and raw buffer (in bytes) given to the string
\* routines on their own, and how many buffers they are given
MaxLen == 2
MaxBufs == 1

\* ------------------------------------------------------------ pointers
NULL == 0
Addrs == 1..MaxAddr
Pointers == Addrs \cup {NULL}
OptAddr == MaxAddr + 1

\* ------------------------------------------------------------ data
ErrorCode ==
    {"Other", "AuthenticationError", "ValidationError", "NotFoundError",
     "PermissionError", "TimeoutError", "NetworkError",
     "InvalidArgumentError", "IoError"}

\* the values of a payload type T
Values == {41, 42}

\* Option<T>: None is <<>>, Some(v) is <<v>>
None == <<>>
Some(v) == <<v>>
Options == {None} \cup {Some(v) : v \in Values}

\* the messages of the calls, as sequences of code points: "", "A", "\u{e9}A"
\* (U+00E9 takes two bytes in UTF-8) and "A\0\u{e9}", which has an embedded NUL
Messages == {<<>>, <<65>>, <<233, 65>>, <<65, 0, 233>>}

RECURSIVE SeqsUpTo(_, _)
SeqsUpTo(S, n) ==
    IF n = 0 THEN {<<>>}
    ELSE LET shorter == SeqsUpTo(S, n - 1)
         IN  shorter \cup {Append(s, c) : s \in shorter, c \in S}

\* the texts given to string_to_c_char: NUL, 'A' and U+00E9 in any order
CodePoints == {0, 65, 233}
Texts == SeqsUpTo(CodePoints, MaxLen)

\* the bytes before the terminator of a buffer that did not come from a String:
\* 'A' and the two bytes of U+00E9, 0xC3 (a lead byte) and 0xA9 (a continuation
\* byte, and like 0xFF no byte a character starts with)
RawBytes == {65, 169, 195}
RawBuffers == SeqsUpTo(RawBytes, MaxLen)

\* ------------------------------------------------------------ UTF-8
\* a mutant of EncodeChar: one byte per character below 256, as Latin-1 does
EncodeChar_latin1(cp) == IF cp < 256 THEN <<cp>> ELSE <<63>>

\* char::encode_utf8, as String stores its text
EncodeChar(cp) ==
    IF cp < 128 THEN <<cp>>
    ELSE IF cp < 2048 THEN <<192 + (cp \div 64), 128 + (cp % 64)>>
    ELSE IF cp < 65536
         THEN <<224 + (cp \div 4096), 128 + ((cp \div 64) % 64), 128 + (cp % 64)>>
    ELSE <<240 + (cp \div 262144), 128 + ((cp \div 4096) % 64),
           128 + ((cp \div 64) % 64), 128 + (cp % 64)>>

RECURSIVE Utf8(_)
Utf8(text) ==
    IF text = <<>> THEN <<>> ELSE EncodeChar(Head(text)) \o Utf8(Tail(text))

IsCont(b) == b >= 128 /\ b <= 191

\* the number of bytes of the well-formed sequence that starts bytes, 0 if none
SeqLen(bytes) ==
    LET n == Len(bytes)
        b1 == bytes[1]
    IN  IF b1 < 128 THEN 1
        ELSE IF b1 >= 194 /\ b1 <= 223
             THEN IF n >= 2 /\ IsCont(bytes[2]) THEN 2 ELSE 0
        ELSE IF b1 >= 224 /\ b1 <= 239
             THEN IF /\ n >= 3
                     /\ IsCont(bytes[2])
                     /\ IsCont(bytes[3])
                     /\ (b1 = 224 => bytes[2] >= 160)
                     /\ (b1 = 237 => bytes[2] <= 159)
                  THEN 3 ELSE 0
        ELSE IF b1 >= 240 /\ b1 <= 244
             THEN IF /\ n >= 4
                     /\ IsCont(bytes[2])
                     /\ IsCont(bytes[3])
                     /\ IsCont(bytes[4])
                     /\ (b1 = 240 => bytes[2] >= 144)
                     /\ (b1 = 244 => bytes[2] <= 143)
                  THEN 4 ELSE 0
        ELSE 0

DecodeChar(bytes, k) ==
    IF k = 1 THEN bytes[1]
    ELSE IF k = 2 THEN (bytes[1] - 192) * 64 + (bytes[2] - 128)
    ELSE IF k = 3
         THEN (bytes[1] - 224) * 4096 + (bytes[2] - 128) * 64 + (bytes[3] - 128)
    ELSE (bytes[1] - 240) * 262144 + (bytes[2] - 128) * 4096
         + (bytes[3] - 128) * 64 + (bytes[4] - 128)

\* a mutant of to_str: only ASCII is taken as text
to_str_ascii(bytes) ==
    IF \A i \in 1..Len(bytes) : bytes[i] < 128
    THEN [valid |-> TRUE, text |-> bytes]
    ELSE [valid |-> FALSE, text |-> <<>>]

\* CStr::to_str: the text of bytes, or an error where they are not UTF-8
RECURSIVE to_str(_)
to_str(bytes) ==
    IF bytes = <<>> THEN [valid |-> TRUE, text |-> <<>>]
    ELSE LET k == SeqLen(bytes)
         IN  IF k = 0 THEN [valid |-> FALSE, text |-> <<>>]
             ELSE LET rest == to_str(SubSeq(bytes, k + 1, Len(bytes)))
                  IN  [valid |-> rest.valid,
                       text  |-> IF rest.valid
                                 THEN <<DecodeChar(bytes, k)>> \o rest.text
                                 ELSE <<>>]

\* CStr::from_ptr: the bytes of a buffer before its first NUL
RECURSIVE UpToNul(_)
UpToNul(buf) ==
    IF buf = <<>> \/ Head(buf) = 0 THEN <<>>
    ELSE <<Head(buf)>> \o UpToNul(Tail(buf))

\* a mutant of HasNul: interior NULs go unnoticed, the bytes are stored as they are
HasNul_never(bytes) == FALSE

\* CString::new: is there a 0 among the bytes (memchr), which makes it fail
HasNul(bytes) == \E i \in 1..Len(bytes) : bytes[i] = 0

\* CString::new(..).into_raw(): the buffer of a text without NUL
CStringBuffer(bytes) == bytes \o <<0>>

\* ------------------------------------------------------------ cells
Cell(kind, okp, errp, code, message, bytes, ty, val) ==
    [kind |-> kind, ok |-> okp, err |-> errp, code |-> code,
     message |-> message, bytes |-> bytes, ty |-> ty, val |-> val]

UnusedCell == Cell("unused", NULL, NULL, "", NULL, <<>>, "", NULL)
FreedCell == Cell("freed", NULL, NULL, "", NULL, <<>>, "", NULL)

\* struct ExternResult { ok, err }
ExternResult(okp, errp) == Cell("ExternResult", okp, errp, "", NULL, <<>>, "", NULL)

\* struct ExternError { code, message }
ExternError(code, message) == Cell("ExternError", NULL, NULL, code, message, <<>>, "", NULL)

\* a NUL-terminated byte array that is no CString: a static, or the foreign side's
StaticBuffer(bytes) == Cell("static", NULL, NULL, "", NULL, bytes, "", NULL)

\* the buffer of a CString
CString(bytes) == Cell("CString", NULL, NULL, "", NULL, bytes, "", NULL)

\* Box<ty> holding val: ty is "T", "uuid" or "&T" (val is then the address referred to)
BoxOf(ty, val) == Cell("Box", NULL, NULL, "", NULL, <<>>, ty, val)

\* an envelope as a value: what a *mut ExternResult points to, or what From returns
Envelope(okp, errp) == [ok |-> okp, err |-> errp]

\* ------------------------------------------------------------ state
VARIABLES
    heap,      \* allocation id -> cell
    handles,   \* raw pointers the producer made with Box::into_raw and still owns
    opt,       \* the producer's Option<T> local: [live, value]
    owned,     \* allocations handed to the consumer and not yet released by it
    crashed,   \* "no", "panic" (unwrap on a NulError) or "fault" (undefined behaviour hit)
    last,      \* the call just made: its arguments, what it returned, what it allocated
    thr        \* per thread: where it is in a constructor, the handles it holds

vars == <<heap, handles, opt, owned, crashed, last, thr>>

Live(h) == {a \in Addrs : h[a].kind \notin {"unused", "freed"}}
Unused(h) == {a \in Addrs : h[a].kind = "unused"}
Room(h, n) == Cardinality(Unused(h)) >= n

\* the global allocator: the next allocation id
Fresh(h) == CHOOSE a \in Unused(h) : \A b \in Unused(h) : a <= b

\* Box::into_raw(Box::new(cell))
BoxNew(h, cell) == [heap |-> [h EXCEPT ![Fresh(h)] = cell], ptr |-> Fresh(h)]

\* a mutant of Free: the rebuilt Box is forgotten instead of dropped
Free_forget(h, a) == h

\* dropping the Box or CString rebuilt from a raw pointer
Free(h, a) == [h EXCEPT ![a] = FreedCell]

\* the allocations an envelope's fields lead to
Reach(h, env) ==
    ({env.ok, env.err}
        \cup (IF env.err \in Addrs /\ h[env.err].kind = "ExternError"
              THEN {h[env.err].message} ELSE {}))
    \cap Addrs

\* the addresses a reference stored in the envelope's payload points at
Borrowed(h, env) ==
    IF env.ok \in Addrs /\ h[env.ok].kind = "Box" /\ h[env.ok].ty = "&T"
    THEN {h[env.ok].val} ELSE {}

EnvelopeAt(h, p) == Envelope(h[p].ok, h[p].err)

\* the allocations whose handles are stored in allocation a
Children(h, a) ==
    (IF h[a].kind = "ExternResult" THEN {h[a].ok, h[a].err}
     ELSE IF h[a].kind = "ExternError" THEN {h[a].message}
     ELSE {}) \cap Addrs

\* ------------------------------------------------------------ string.rs
\* the text of the longest well-formed prefix of bytes
RECURSIVE ValidPrefix(_)
ValidPrefix(bytes) ==
    IF bytes = <<>> THEN <<>>
    ELSE LET k == SeqLen(bytes)
         IN  IF k = 0 THEN <<>>
             ELSE <<DecodeChar(bytes, k)>> \o ValidPrefix(SubSeq(bytes, k + 1, Len(bytes)))

\* a mutant of c_char_to_string: the text up to the first ill-formed byte is kept
c_char_to_string_lossy(h, cchar) == ValidPrefix(UpToNul(h[cchar].bytes))

\* c_char_to_string: CStr::from_ptr(cchar).to_str().unwrap_or("")
c_char_to_string(h, cchar) ==
    LET r == to_str(UpToNul(h[cchar].bytes))
    IN  IF r.valid THEN r.text ELSE <<>>

\* a mutant of from_ptr: the buffer is taken over as CString::from_raw does, and
\* freed when the CString is dropped at the end of the call
from_ptr_owning(h, cchar) == [h EXCEPT ![cchar] = FreedCell]

\* the heap after c_char_to_string: CStr::from_ptr borrows the buffer, the &str
\* returned points into it
from_ptr(h, cchar) == h

\* a mutant of string_to_c_char: buffers are kept in a table shared by all calls,
\* a text that has a buffer gets that one again
string_to_c_char_interned(h, r_string) ==
    LET same == {a \in Addrs : h[a] = CString(CStringBuffer(Utf8(r_string)))}
    IN  IF same # {} THEN [heap |-> h, ptr |-> CHOOSE a \in same : TRUE]
        ELSE BoxNew(h, CString(CStringBuffer(Utf8(r_string))))

\* string_to_c_char: CString::new(r_string.into()).unwrap().into_raw()
\* (the caller has checked the unwrap: Utf8(r_string) has no NUL)
string_to_c_char(h, r_string) == BoxNew(h, CString(CStringBuffer(Utf8(r_string))))

\* ------------------------------------------------------------ result.rs
\* each constructor gives the heap it leaves and the pointer it returns

\* a mutant of ok_ptr: what result points to is copied into a Box of the envelope's own
ok_ptr_copy(h, result) ==
    IF result \in Addrs /\ Room(h, 2)
    THEN LET b == BoxNew(h, h[result])
         IN  BoxNew(b.heap, ExternResult(b.ptr, NULL))
    ELSE BoxNew(h, ExternResult(result, NULL))

ok_ptr(h, result) == BoxNew(h, ExternResult(result, NULL))

\* a mutant of ok: the envelope points at the argument where it is, nothing is boxed
ok_unboxed(h, ty, val) == ok_ptr(h, OptAddr)

ok(h, ty, val) ==
    LET b == BoxNew(h, BoxOf(ty, val))
    IN  ok_ptr(b.heap, b.ptr)

ok_null(h) == BoxNew(h, ExternResult(NULL, NULL))

\* result: &Option<T>; Some(t) binds t: &T, so ok is called with the reference
ok_optional(h, result) ==
    IF result # None THEN ok(h, "&T", OptAddr) ELSE ok_null(h)

NewExternError(h, code, msg) ==
    LET s == string_to_c_char(h, msg)
    IN  BoxNew(s.heap, ExternError(code, s.ptr))

\* a mutant of err: the error record is stored in both fields
err_both(h, code, msg) ==
    LET e == NewExternError(h, code, msg)
    IN  BoxNew(e.heap, ExternResult(e.ptr, e.ptr))

\* a mutant of err: the envelope is allocated first, then the ExternError, then
\* the message, each handle stored into the allocation made before it
err_outer_first(h, code, msg) ==
    LET p == BoxNew(h, ExternResult(NULL, NULL))
        e == BoxNew(p.heap, ExternError(code, NULL))
        s == string_to_c_char(e.heap, msg)
    IN  [heap |-> [s.heap EXCEPT ![p.ptr] = ExternResult(NULL, e.ptr),
                                 ![e.ptr] = ExternError(code, s.ptr)],
         ptr |-> p.ptr]

err(h, code, msg) ==
    LET e == NewExternError(h, code, msg)
    IN  BoxNew(e.heap, ExternResult(NULL, e.ptr))

\* a native Result<T, E>: Ok(value) or Err(e), e given by its display text
NativeOk(v) == [tag |-> "Ok", value |-> v, text |-> <<>>]
NativeErr(t) == [tag |-> "Err", value |-> NULL, text |-> t]
NativeResults == {NativeOk(v) : v \in Values} \cup {NativeErr(t) : t \in Messages}

\* a mutant of from_ok: the envelope is boxed as ok does, and a copy of it returned
from_ok_boxed(h, value) ==
    IF Room(h, 2)
    THEN LET r == ok(h, "T", value)
         IN  [heap |-> r.heap, env |-> EnvelopeAt(r.heap, r.ptr)]
    ELSE LET b == BoxNew(h, BoxOf("T", value))
         IN  [heap |-> b.heap, env |-> Envelope(b.ptr, NULL)]

\* impl From<Result<T, E>> for ExternResult: the envelope is returned by value
from_ok(h, value) ==
    LET b == BoxNew(h, BoxOf("T", value))
    IN  [heap |-> b.heap, env |-> Envelope(b.ptr, NULL)]

\* a mutant of from_err: the error's display text is dropped
from_err_silent(h, text) ==
    LET e == NewExternError(h, "Other", <<>>)
    IN  [heap |-> e.heap, env |-> Envelope(NULL, e.ptr)]

from_err(h, text) ==
    LET e == NewExternError(h, "Other", text)
    IN  [heap |-> e.heap, env |-> Envelope(NULL, e.ptr)]

\* ------------------------------------------------------------ calls
NoEnv == Envelope(NULL, NULL)

\* the threads calling into the crate
Threads == {1, 2}

\* a thread between calls, holding the handles in held
IdleThread(held) == [pc |-> "idle", code |-> "", tmp |-> NULL, held |-> held]

\* a thread inside a constructor: pc names the allocation it makes next, tmp is
\* the pointer the allocation before gave it
InCall(pc, code, tmp, held) == [pc |-> pc, code |-> code, tmp |-> tmp, held |-> held]

\* the record of a call: op, its arguments (code, msg, val, arg), the pointer or
\* the by-value envelope it returned, how it ended and the allocations it made
Call(op, code, msg, val, arg, ptr, env, outcome, fresh) ==
    [op |-> op, code |-> code, msg |-> msg, val |-> val, arg |-> arg,
     ptr |-> ptr, env |-> env, outcome |-> outcome, fresh |-> fresh,
     text |-> <<>>]

\* the record of a call of a string routine: text is the &str it returned
StrCall(op, msg, arg, ptr, text, outcome, fresh) ==
    [Call(op, "", msg, None, arg, ptr, NoEnv, outcome, fresh) EXCEPT !.text = text]

\* the allocations made between two heaps
Allocated(h, h2) == {a \in Addrs : h[a].kind = "unused" /\ h2[a].kind # "unused"}

Init ==
    /\ heap = [a \in Addrs |-> UnusedCell]
    /\ handles = {}
    /\ opt = [live |-> FALSE, value |-> None]
    /\ owned = {}
    /\ crashed = "no"
    /\ last = Call("init", "", <<>>, None, NULL, NULL, NoEnv, "returned", {})
    /\ thr = [t \in Threads |-> IdleThread({})]

\* a constructor returned the pointer r.ptr to an envelope in r.heap
Returned(op, code, msg, val, arg, r) ==
    /\ heap' = r.heap
    /\ owned' = owned \cup {r.ptr} \cup Reach(r.heap, EnvelopeAt(r.heap, r.ptr))
    /\ UNCHANGED thr
    /\ last' = Call(op, code, msg, val, arg, r.ptr, NoEnv, "returned",
                    Allocated(heap, r.heap))
    /\ UNCHANGED <<opt, crashed>>

\* ---- the producer's side
\* let value_ptr = Box::into_raw(Box::new(v))
box_into_raw(ty, v) ==
    /\ crashed = "no"
    /\ Room(heap, 1)
    /\ LET b == BoxNew(heap, BoxOf(ty, v))
       IN  /\ heap' = b.heap
           /\ handles' = handles \cup {b.ptr}
           /\ UNCHANGED thr
           /\ last' = Call("box_into_raw", "", <<>>, Some(v), NULL, b.ptr, NoEnv,
                           "returned", Allocated(heap, b.heap))
    /\ UNCHANGED <<opt, owned, crashed>>

\* the Option local goes out of scope
drop_option ==
    /\ crashed = "no"
    /\ opt.live
    /\ opt' = [live |-> FALSE, value |-> None]
    /\ UNCHANGED thr
    /\ last' = Call("drop_option", "", <<>>, None, NULL, NULL, NoEnv, "returned", {})
    /\ UNCHANGED <<heap, handles, owned, crashed>>

\* ---- the constructors
call_ok(v) ==
    /\ crashed = "no"
    /\ Room(heap, 2)
    /\ Returned("ok", "", <<>>, Some(v), NULL, ok(heap, "T", v))
    /\ UNCHANGED handles

call_ok_ptr(result) ==
    /\ crashed = "no"
    /\ Room(heap, 1)
    /\ result \in handles \cup {NULL}
    /\ Returned("ok_ptr", "", <<>>, None, result, ok_ptr(heap, result))
    /\ handles' = handles \ {result}

call_ok_null ==
    /\ crashed = "no"
    /\ Room(heap, 1)
    /\ Returned("ok_null", "", <<>>, None, NULL, ok_null(heap))
    /\ UNCHANGED handles

\* let value: Option<T> = o; ExternResult::ok_optional(&value)
call_ok_optional(o) ==
    /\ crashed = "no"
    /\ ~opt.live
    /\ Room(heap, IF o # None THEN 2 ELSE 1)
    /\ opt' = [live |-> TRUE, value |-> o]
    /\ LET r == ok_optional(heap, o)
       IN  /\ heap' = r.heap
           /\ owned' = owned \cup {r.ptr} \cup Reach(r.heap, EnvelopeAt(r.heap, r.ptr))
           /\ UNCHANGED thr
           /\ last' = Call("ok_optional", "", <<>>, o, NULL, r.ptr, NoEnv, "returned",
                           Allocated(heap, r.heap))
    /\ UNCHANGED <<handles, crashed>>

call_err(code, msg) ==
    /\ crashed = "no"
    /\ IF HasNul(Utf8(msg))
       THEN \* CString::new gives Err(NulError), unwrap panics before any Box is made
            /\ crashed' = "panic"
            /\ UNCHANGED thr
            /\ last' = Call("err", code, msg, None, NULL, NULL, NoEnv, "panic", {})
            /\ UNCHANGED <<heap, handles, opt, owned>>
       ELSE /\ Room(heap, 3)
            /\ Returned("err", code, msg, None, NULL, err(heap, code, msg))
            /\ UNCHANGED handles

call_from(result) ==
    /\ crashed = "no"
    /\ IF result.tag = "Err" /\ HasNul(Utf8(result.text))
       THEN /\ crashed' = "panic"
            /\ UNCHANGED thr
            /\ last' = Call("from", "", result.text, None, NULL, NULL, NoEnv, "panic", {})
            /\ UNCHANGED <<heap, handles, opt, owned>>
       ELSE /\ Room(heap, IF result.tag = "Ok" THEN 1 ELSE 2)
            /\ LET r == IF result.tag = "Ok" THEN from_ok(heap, result.value)
                        ELSE from_err(heap, result.text)
               IN  /\ heap' = r.heap
                   /\ owned' = owned \cup Reach(r.heap, r.env)
                   /\ UNCHANGED thr
                   /\ last' = Call("from", "", result.text,
                                   IF result.tag = "Ok" THEN Some(result.value) ELSE None,
                                   NULL, NULL, r.env, "returned", Allocated(heap, r.heap))
            /\ UNCHANGED <<handles, opt, crashed>>

\* ---- the consumer's side: the release functions
\* what a call whose behaviour is undefined can do in a build: nothing, or fault
NullOutcomes == {"noop", "fault"}
\* deallocating with another layout than the allocation's: the cell is freed, or fault
MismatchOutcomes == {"freed", "fault"}

\* the effect of rebuilding the Box (or CString) from obj and dropping it
Dropped(op, obj, outcome) ==
    /\ crashed = "no"
    /\ IF outcome = "freed"
       THEN /\ heap' = Free(heap, obj)
            /\ owned' = owned \ {obj}
            /\ UNCHANGED crashed
       ELSE /\ crashed' = (IF outcome = "fault" THEN "fault" ELSE crashed)
            /\ UNCHANGED <<heap, owned>>
    /\ UNCHANGED thr
    /\ last' = Call(op, "", <<>>, None, obj, NULL, NoEnv, outcome, {})
    /\ UNCHANGED <<handles, opt>>

\* what dropping a Box<ty> rebuilt from obj can do
BoxDropOutcomes(obj, ty) ==
    IF obj = NULL THEN NullOutcomes
    ELSE IF heap[obj].ty = ty THEN {"freed"}
    ELSE MismatchOutcomes

\* define_destructor!(destroy, c_void): let _ = Box::from_raw(obj)
destroy(obj) ==
    /\ obj # NULL => obj \in owned /\ heap[obj].kind = "Box"
    /\ \E out \in BoxDropOutcomes(obj, "c_void") : Dropped("destroy", obj, out)

\* define_destructor!(destroy_t, T), the release function of the payload type T;
\* what ok_optional boxed is released with it too
destroy_t(obj) ==
    /\ obj # NULL => obj \in owned /\ heap[obj].kind = "Box" /\ heap[obj].ty \in {"T", "&T"}
    /\ \E out \in BoxDropOutcomes(obj, "T") : Dropped("destroy_t", obj, out)

destroy_raw_uuid(obj) ==
    /\ obj # NULL => obj \in owned /\ heap[obj].kind = "Box" /\ heap[obj].ty = "uuid"
    /\ \E out \in BoxDropOutcomes(obj, "uuid") : Dropped("destroy_raw_uuid", obj, out)

\* let _ = CString::from_raw(s)
destroy_c_char(s) ==
    /\ s # NULL => s \in owned /\ heap[s].kind = "CString"
    /\ \E out \in (IF s = NULL THEN NullOutcomes ELSE {"freed"}) :
           Dropped("destroy_c_char", s, out)

\* a mutant of extern_result_destroy: ExternResult has a Drop that releases what
\* its fields point to
extern_result_destroy_deep(obj) ==
    /\ crashed = "no"
    /\ obj \in owned
    /\ heap[obj].kind = "ExternResult"
    /\ LET inner == Reach(heap, EnvelopeAt(heap, obj)) \cup {obj}
       IN  /\ heap' = [a \in Addrs |-> IF a \in inner THEN FreedCell ELSE heap[a]]
           /\ owned' = owned \ inner
    /\ UNCHANGED thr
    /\ last' = Call("extern_result_destroy", "", <<>>, None, obj, NULL, NoEnv, "freed", {})
    /\ UNCHANGED <<handles, opt, crashed>>

\* define_destructor!(extern_result_destroy, ExternResult)
extern_result_destroy(obj) ==
    /\ obj # NULL => obj \in owned /\ heap[obj].kind = "ExternResult"
    /\ \E out \in (IF obj = NULL THEN NullOutcomes ELSE {"freed"}) :
           Dropped("extern_result_destroy", obj, out)

\* let _ = Box::from_raw(result.err as *mut ExternError): the crate has no
\* release function for ExternError, its callers rebuild the Box themselves
box_from_raw_extern_error(e) ==
    /\ e \in owned
    /\ heap[e].kind = "ExternError"
    /\ Dropped("box_from_raw_extern_error", e, "freed")

\* ---- the string routines called on their own
Buffers(h) == {a \in Addrs : h[a].kind \in {"CString", "static"}}

\* let c_str_ptr = string_to_c_char(r_string)
call_string_to_c_char(r_string) ==
    /\ crashed = "no"
    /\ IF HasNul(Utf8(r_string))
       THEN \* CString::new gives Err(NulError), unwrap panics: no buffer is returned
            /\ crashed' = "panic"
            /\ UNCHANGED thr
            /\ last' = StrCall("string_to_c_char", r_string, NULL, NULL, <<>>, "panic", {})
            /\ UNCHANGED <<heap, handles, opt, owned>>
       ELSE /\ Room(heap, 1)
            /\ Cardinality(Buffers(heap)) < MaxBufs
            /\ LET s == string_to_c_char(heap, r_string)
               IN  /\ heap' = s.heap
                   /\ owned' = owned \cup {s.ptr}
                   /\ UNCHANGED thr
                   /\ last' = StrCall("string_to_c_char", r_string, NULL, s.ptr, <<>>,
                                      "returned", Allocated(heap, s.heap))
            /\ UNCHANGED <<handles, opt, crashed>>

\* static BYTES: [u8; N] = [.., 0x00]: a buffer nobody has to release
static_buffer(bytes) ==
    /\ crashed = "no"
    /\ Room(heap, 1)
    /\ Cardinality(Buffers(heap)) < MaxBufs
    /\ LET b == BoxNew(heap, StaticBuffer(CStringBuffer(bytes)))
       IN  /\ heap' = b.heap
           /\ UNCHANGED thr
           /\ last' = StrCall("static", <<>>, NULL, b.ptr, <<>>, "returned",
                              Allocated(heap, b.heap))
    /\ UNCHANGED <<handles, opt, owned, crashed>>

\* let result = c_char_to_string(cchar), cchar a valid NUL-terminated buffer
call_c_char_to_string(cchar) ==
    /\ crashed = "no"
    /\ cchar \in Buffers(heap)
    /\ heap' = from_ptr(heap, cchar)
    /\ UNCHANGED thr
    /\ last' = StrCall("c_char_to_string", <<>>, cchar, NULL,
                       c_char_to_string(heap, cchar), "returned", {})
    /\ UNCHANGED <<handles, opt, owned, crashed>>

\* ---- a consumer that is handed the envelope's pointer only and reads the handles
\* stored in it when it wants them; here owned is the set of handles it holds
\* let result_ptr = ExternResult::err(..) resp. ExternResult::ok(..)
Received(op, code, msg, val, r) ==
    /\ heap' = r.heap
    /\ owned' = owned \cup {r.ptr}
    /\ UNCHANGED thr
    /\ last' = Call(op, code, msg, val, NULL, r.ptr, NoEnv, "returned",
                    Allocated(heap, r.heap))
    /\ UNCHANGED <<handles, opt, crashed>>

recv_err(code, msg) ==
    /\ crashed = "no"
    /\ Room(heap, 3)
    /\ Received("err", code, msg, None, err(heap, code, msg))

recv_ok(v) ==
    /\ crashed = "no"
    /\ Room(heap, 2)
    /\ Received("ok", "", <<>>, Some(v), ok(heap, "T", v))

\* reading a field through a pointer to a freed allocation is undefined: the read
\* may fault, or give whatever the memory holds by then - the old handle or any other
FreedReadOutcomes == {"stale", "fault"}

\* the consumer read the handle v out of the allocation p
Read(op, p, v, outcome) ==
    /\ owned' = owned \cup ({v} \cap Live(heap))
    /\ crashed' = (IF outcome = "fault" THEN "fault" ELSE crashed)
    /\ UNCHANGED thr
    /\ last' = Call(op, "", <<>>, None, p, v, NoEnv, outcome, {})
    /\ UNCHANGED <<heap, handles, opt>>

\* (&*p).field, field one of ok, err, message, p an allocation of type kind
ReadField(op, kind, p, v) ==
    /\ crashed = "no"
    /\ IF heap[p].kind = "freed"
       THEN \E out \in FreedReadOutcomes :
                \E w \in (IF out = "stale" THEN Pointers ELSE {NULL}) :
                    Read(op, p, w, out)
       ELSE /\ p \in owned
            /\ heap[p].kind = kind
            /\ Read(op, p, v, "read")

\* let result = &*result_ptr; result.ok
read_ok(p) ==
    /\ p \in Addrs
    /\ ReadField("read_ok", "ExternResult", p, heap[p].ok)

\* let result = &*result_ptr; result.err
read_err(p) ==
    /\ p \in Addrs
    /\ ReadField("read_err", "ExternResult", p, heap[p].err)

\* let error = &*result.err; error.message
read_message(e) ==
    /\ e \in Addrs
    /\ ReadField("read_message", "ExternError", e, heap[e].message)

\* ---- two threads calling the constructors, each allocation a step of its own
ThreadStep(t, h, rec) ==
    /\ heap' = h
    /\ thr' = [thr EXCEPT ![t] = rec]
    /\ UNCHANGED <<handles, opt, owned, crashed, last>>

\* ExternResult::err, first the argument: string_to_c_char(msg)
t_string_to_c_char(t, code, msg) ==
    /\ thr[t].pc = "idle"
    /\ Room(heap, 1)
    /\ LET s == string_to_c_char(heap, msg)
       IN  ThreadStep(t, s.heap, InCall("ExternError", code, s.ptr, thr[t].held))

\* then Box::into_raw(Box::new(ExternError { code, message }))
t_new_extern_error(t) ==
    /\ thr[t].pc = "ExternError"
    /\ Room(heap, 1)
    /\ LET e == BoxNew(heap, ExternError(thr[t].code, thr[t].tmp))
       IN  ThreadStep(t, e.heap, InCall("ExternResult", "", e.ptr, thr[t].held))

\* then Box::into_raw(Box::new(ExternResult { ok: null, err }))
t_new_extern_result(t) ==
    /\ thr[t].pc = "ExternResult"
    /\ Room(heap, 1)
    /\ LET r == BoxNew(heap, ExternResult(NULL, thr[t].tmp))
       IN  ThreadStep(t, r.heap, IdleThread(thr[t].held \cup {r.ptr}))

\* ExternResult::ok, first the argument: Box::into_raw(Box::new(result))
t_box_new(t, v) ==
    /\ thr[t].pc = "idle"
    /\ Room(heap, 1)
    /\ LET b == BoxNew(heap, BoxOf("T", v))
       IN  ThreadStep(t, b.heap, InCall("ok_ptr", "", b.ptr, thr[t].held))

\* then Self::ok_ptr(..)
t_ok_ptr(t) ==
    /\ thr[t].pc = "ok_ptr"
    /\ Room(heap, 1)
    /\ LET r == ok_ptr(heap, thr[t].tmp)
       IN  ThreadStep(t, r.heap, IdleThread(thr[t].held \cup {r.ptr}))

t_ok_null(t) ==
    /\ thr[t].pc = "idle"
    /\ Room(heap, 1)
    /\ LET r == ok_null(heap)
       IN  ThreadStep(t, r.heap, IdleThread(thr[t].held \cup {r.ptr}))

\* let result = &*result_ptr: the thread reads the handles stored in p
t_read(t, p) ==
    /\ thr[t].pc = "idle"
    /\ p \in thr[t].held
    /\ Children(heap, p) \cap Live(heap) \notin SUBSET thr[t].held
    /\ ThreadStep(t, heap, IdleThread(thr[t].held \cup (Children(heap, p) \cap Live(heap))))

\* the thread releases a with the release of its type: destroy_c_char,
\* Box::from_raw, extern_result_destroy
t_release(t, a) ==
    /\ thr[t].pc = "idle"
    /\ a \in thr[t].held
    /\ ThreadStep(t, Free(heap, a), IdleThread(thr[t].held \ {a}))

\* the release functions the crate exports, each with the type its handle points to
ReleaseFunctions ==
    {[name |-> "destroy", ty |-> "c_void"],
     [name |-> "destroy_raw_uuid", ty |-> "[u8; 16]"],
     [name |-> "destroy_c_char", ty |-> "c_char"],
     [name |-> "extern_result_destroy", ty |-> "ExternResult"]}

\* the type a handle to the cell has
HandleType(cell) ==
    IF cell.kind = "CString" THEN "c_char"
    ELSE IF cell.kind = "Box" THEN (IF cell.ty = "uuid" THEN "[u8; 16]" ELSE cell.ty)
    ELSE cell.kind

\* ------------------------------------------------------------ specification
\* the payloads a producer boxes itself: a T, or a [u8; 16]
Payloads == {<<"T", v>> : v \in Values} \cup {<<"uuid", NULL>>}

\* the messages the contract allows: no embedded NUL
ValidMessages == {t \in Messages : ~HasNul(Utf8(t))}
ValidResults == {r \in NativeResults : ~HasNul(Utf8(r.text))}

\* calls within the contract: valid messages, each allocation released by the
\* function of its own type
Next ==
    \/ \E p \in Payloads : box_into_raw(p[1], p[2])
    \/ drop_option
    \/ \E v \in Values : call_ok(v)
    \/ \E result \in Pointers : call_ok_ptr(result)
    \/ call_ok_null
    \/ \E o \in Options : call_ok_optional(o)
    \/ \E code \in ErrorCode, msg \in ValidMessages : call_err(code, msg)
    \/ \E result \in ValidResults : call_from(result)
    \/ \E obj \in Addrs : destroy_t(obj)
    \/ \E obj \in Addrs : destroy_raw_uuid(obj)
    \/ \E s \in Addrs : destroy_c_char(s)
    \/ \E obj \in Addrs : extern_result_destroy(obj)
    \/ \E e \in Addrs : box_from_raw_extern_error(e)

Spec == Init /\ [][Next]_vars

\* calls outside the contract too: a null handle, a message with an embedded NUL
NextAny ==
    \/ \E v \in Values : call_ok(v)
    \/ call_ok_null
    \/ \E code \in ErrorCode, msg \in Messages : call_err(code, msg)
    \/ \E result \in NativeResults : call_from(result)
    \/ \E r_string \in Messages : call_string_to_c_char(r_string)
    \/ \E obj \in Pointers : destroy(obj)
    \/ \E obj \in Pointers : destroy_t(obj)
    \/ \E obj \in Pointers : destroy_raw_uuid(obj)
    \/ \E s \in Pointers : destroy_c_char(s)
    \/ \E obj \in Pointers : extern_result_destroy(obj)
    \/ \E e \in Addrs : box_from_raw_extern_error(e)

SpecAny == Init /\ [][NextAny]_vars

\* the string routines on their own: texts to marshal, buffers to read back
NextStr ==
    \/ \E r_string \in Texts : call_string_to_c_char(r_string)
    \/ \E bytes \in RawBuffers : static_buffer(bytes)
    \/ \E cchar \in Addrs : call_c_char_to_string(cchar)
    \/ \E s \in Addrs : destroy_c_char(s)

SpecStr == Init /\ [][NextStr]_vars

\* a consumer reading and releasing what an envelope leads to, in any order
NextOrder ==
    \/ \E code \in {"Other", "AuthenticationError"}, msg \in ValidMessages :
           recv_err(code, msg)
    \/ \E v \in Values : recv_ok(v)
    \/ \E p \in Addrs : read_ok(p)
    \/ \E p \in Addrs : read_err(p)
    \/ \E e \in Addrs : read_message(e)
    \/ \E obj \in Addrs : destroy_t(obj)
    \/ \E s \in Addrs : destroy_c_char(s)
    \/ \E e \in Addrs : box_from_raw_extern_error(e)
    \/ \E obj \in Addrs : extern_result_destroy(obj)

SpecOrder == Init /\ [][NextOrder]_vars

\* two threads, each constructing, reading and releasing envelopes of its own
NextThreads ==
    \E t \in Threads :
        \/ \E code \in {"Other", "AuthenticationError"}, msg \in ValidMessages :
               t_string_to_c_char(t, code, msg)
        \/ t_new_extern_error(t)
        \/ t_new_extern_result(t)
        \/ \E v \in Values : t_box_new(t, v)
        \/ t_ok_ptr(t)
        \/ t_ok_null(t)
        \/ \E p \in Addrs : t_read(t, p)
        \/ \E a \in Addrs : t_release(t, a)

SpecThreads == Init /\ [][NextThreads]_vars

TypeOK ==
    /\ owned \subseteq Live(heap)
    /\ handles \subseteq Live(heap)
    /\ crashed \in {"no", "panic", "fault"}

\* ------------------------------------------------------------ properties
Constructors == {"ok", "ok_ptr", "ok_null", "ok_optional", "err", "from"}
Releases ==
    {"destroy", "destroy_t", "destroy_raw_uuid", "destroy_c_char", "extern_result_destroy"}

\* the last call was constructor op and it returned
ReturnedFrom(op) == last.op = op /\ last.outcome = "returned"

\* the envelope the last constructor returned: From's by value, the others' boxed
RetEnv == IF last.op = "from" THEN last.env ELSE EnvelopeAt(heap, last.ptr)

EmptyHeap == [a \in Addrs |-> UnusedCell]

\* what a consumer sees through an envelope: which fields are null, the payload's
\* type and value, the error's code and decoded message
Shape(h, env) ==
    [ok_null  |-> env.ok = NULL,
     err_null |-> env.err = NULL,
     payload  |-> IF env.ok \in Addrs /\ h[env.ok].kind = "Box"
                  THEN <<h[env.ok].ty, h[env.ok].val>> ELSE <<>>,
     error    |-> IF env.err \in Addrs /\ h[env.err].kind = "ExternError"
                  THEN <<h[env.err].code,
                         IF h[env.err].message \in Addrs
                            /\ h[h[env.err].message].kind = "CString"
                         THEN <<c_char_to_string(h, h[env.err].message)>> ELSE <<>> >>
                  ELSE <<>>]

\* C1: ExternResult::err(k, m), m without NUL, returns an envelope with ok null and
\* err non-null; the ExternError has code k and a non-null message buffer that
\* decodes back to exactly m.
C1_ErrEnvelope ==
    ReturnedFrom("err") =>
        LET env == EnvelopeAt(heap, last.ptr)
        IN  /\ heap[last.ptr].kind = "ExternResult"
            /\ env.ok = NULL
            /\ env.err \in Addrs
            /\ heap[env.err].kind = "ExternError"
            /\ heap[env.err].code = last.code
            /\ heap[env.err].message \in Addrs
            /\ heap[heap[env.err].message].kind = "CString"
            /\ c_char_to_string(heap, heap[env.err].message) = last.msg

C1_Witness ==
    /\ ReturnedFrom("err")
    /\ last.code = "IoError"
    /\ last.msg = <<233, 65>>
    /\ heap[heap[heap[last.ptr].err].message].bytes = <<195, 169, 65, 0>>

\* C2: ExternResult::ok(v) returns an envelope with ok non-null and err null, and
\* reading ok as a pointer to v's type yields v.
C2_OkEnvelope ==
    ReturnedFrom("ok") =>
        LET env == EnvelopeAt(heap, last.ptr)
        IN  /\ heap[last.ptr].kind = "ExternResult"
            /\ env.ok \in Addrs
            /\ env.err = NULL
            /\ heap[env.ok].kind = "Box"
            /\ heap[env.ok].ty = "T"
            /\ heap[env.ok].val = last.val[1]

C2_Witness ==
    /\ ReturnedFrom("ok")
    /\ last.val = Some(42)
    /\ heap[heap[last.ptr].ok].val = 42

\* C3 (as claimed): ok_optional(Some(v)) gives what ok(v) gives - the same null
\* fields, the same number of allocations, a payload holding v itself as a value of
\* v's type - and ok_optional(None) gives what ok_null() gives.
C3_OptionalAsOk ==
    ReturnedFrom("ok_optional") =>
        LET r == IF last.val # None THEN ok(EmptyHeap, "T", last.val[1])
                 ELSE ok_null(EmptyHeap)
        IN  /\ Shape(heap, RetEnv) = Shape(r.heap, EnvelopeAt(r.heap, r.ptr))
            /\ Cardinality(last.fresh) = Cardinality(Live(r.heap))

\* C4 (as claimed): after any constructor returns, every handle reachable from the
\* envelope, a reference stored in the payload included, points to a live heap
\* allocation that the consumer owns and the producer holds no more; nothing
\* reachable lies in the storage of the constructor's inputs.
C4_SoleOwnership ==
    (last.op \in Constructors /\ last.outcome = "returned") =>
        /\ Reach(heap, RetEnv) \subseteq (owned \cap Live(heap))
        /\ Reach(heap, RetEnv) \cap handles = {}
        /\ Borrowed(heap, RetEnv) = {}

\* C5 (as claimed): a release function called on a null handle is a no-op and
\* never faults.
C5_NullIsNoop ==
    (last.op \in Releases /\ last.arg = NULL) =>
        /\ last.outcome = "noop"
        /\ crashed = "no"

\* C6: once every allocation reachable from the constructed envelopes has been
\* released exactly once (the consumer owns nothing more, the producer holds no
\* handle it has yet to pass on), no allocation is outstanding.
C6_NoLeak ==
    (crashed = "no" /\ owned = {} /\ handles = {}) => Live(heap) = {}

C6_Witness ==
    /\ crashed = "no"
    /\ owned = {}
    /\ handles = {}
    /\ Unused(heap) = {}
    /\ last.op = "extern_result_destroy"
    /\ last.outcome = "freed"

\* C7 (as claimed): for every allocation the constructors make themselves (the
\* envelope, the ExternError, the message buffer) the crate exports a release
\* function whose handle type is the allocation's type.
C7_EveryKindHasRelease ==
    \A a \in owned :
        heap[a].kind \in {"ExternResult", "ExternError", "CString"} =>
            \E f \in ReleaseFunctions : f.ty = HandleType(heap[a])

\* C8: no envelope a constructor produced has both fields non-null: err non-null
\* implies ok null, for the envelope just returned and for every envelope allocated.
C8_NeverBoth ==
    /\ (last.op \in Constructors /\ last.outcome = "returned") =>
           ~(RetEnv.ok # NULL /\ RetEnv.err # NULL)
    /\ \A a \in Live(heap) :
           heap[a].kind = "ExternResult" => ~(heap[a].ok # NULL /\ heap[a].err # NULL)

C8_Witness ==
    /\ ReturnedFrom("err")
    /\ RetEnv.ok = NULL
    /\ RetEnv.err # NULL
    /\ \E a \in owned :
           heap[a].kind = "ExternResult" /\ heap[a].ok = NULL /\ heap[a].err = NULL

\* C9: From maps Ok(v) to an envelope a consumer cannot tell from the one ok(v)
\* builds (ok non-null holding v, err null) and Err(e) to one it cannot tell from
\* the one err(ErrorCode::Other, e.to_string()) builds (ok null, code Other, the
\* message e's display text).
C9_FromMatches ==
    ReturnedFrom("from") =>
        LET r == IF last.val # None THEN ok(EmptyHeap, "T", last.val[1])
                 ELSE err(EmptyHeap, "Other", last.msg)
        IN  /\ Shape(heap, last.env) = Shape(r.heap, EnvelopeAt(r.heap, r.ptr))
            /\ last.val # None =>
                   Shape(heap, last.env).payload = <<"T", last.val[1]>>
            /\ last.val = None =>
                   Shape(heap, last.env).error = <<"Other", <<last.msg>> >>

C9_Witness ==
    /\ ReturnedFrom("from")
    /\ last.val = None
    /\ last.msg = <<233, 65>>
    /\ last.env.ok = NULL
    /\ heap[last.env.err].code = "Other"

\* C10 (as claimed): every constructor, the adapter from a native Result included,
\* returns a handle to a newly heap-allocated envelope that the consumer owns and
\* extern_result_destroy can release.
C10_EveryEnvelopeBoxed ==
    (last.op \in Constructors /\ last.outcome = "returned") =>
        /\ last.ptr \in Addrs
        /\ last.ptr \in last.fresh
        /\ last.ptr \in owned
        /\ heap[last.ptr].kind = "ExternResult"

\* C10 (amended): ok, ok_ptr, ok_null, ok_optional and err return a handle to a
\* newly heap-allocated envelope that the consumer owns and extern_result_destroy
\* can release; From returns the envelope by value and allocates no envelope.
C10_BoxedExceptFrom ==
    (last.op \in Constructors /\ last.outcome = "returned") =>
        IF last.op = "from"
        THEN /\ last.ptr = NULL
             /\ \A a \in last.fresh : heap[a].kind # "ExternResult"
             /\ Reach(heap, last.env) \subseteq last.fresh
        ELSE /\ last.ptr \in Addrs
             /\ last.ptr \in last.fresh
             /\ last.ptr \in owned
             /\ heap[last.ptr].kind = "ExternResult"

C10_Witness ==
    /\ ReturnedFrom("from")
    /\ last.env.ok \in owned
    /\ \E a \in owned : heap[a].kind = "ExternResult" /\ heap[a].err # NULL

\* C11: for every text s without NUL, the empty one included,
\* c_char_to_string(string_to_c_char(s)) = s.
C11_RoundTrip ==
    (last.op = "string_to_c_char" /\ last.outcome = "returned") =>
        /\ last.ptr \in Addrs
        /\ heap[last.ptr].kind = "CString"
        /\ c_char_to_string(heap, last.ptr) = last.msg

C11_Witness ==
    /\ last.op = "string_to_c_char"
    /\ last.outcome = "returned"
    /\ last.msg = <<65, 233>>
    /\ heap[last.ptr].bytes = <<65, 195, 169, 0>>

\* the byte sequences that are the UTF-8 form of a text: with the bytes of
\* RawBytes a text can only be made of 'A' and U+00E9
WellFormed(bytes) == \E t \in SeqsUpTo(CodePoints \ {0}, Len(bytes)) : Utf8(t) = bytes

\* C12: for a NUL-terminated buffer whose bytes are not UTF-8, c_char_to_string
\* returns the empty text: no failure, no decoded prefix.
C12_InvalidGivesEmpty ==
    (last.op = "c_char_to_string" /\ ~WellFormed(UpToNul(heap[last.arg].bytes))) =>
        /\ last.outcome = "returned"
        /\ crashed = "no"
        /\ last.text = <<>>

C12_Witness ==
    /\ last.op = "c_char_to_string"
    /\ heap[last.arg].bytes = <<65, 169, 0>>
    /\ last.text = <<>>

\* C17: c_char_to_string borrows its buffer: the call frees nothing and takes
\* nothing over, the buffer is still allocated with the same bytes afterwards, and
\* whoever owned it before still owns it and still has to release it.
C17_Borrows ==
    [][last'.op = "c_char_to_string" =>
          /\ heap' = heap
          /\ owned' = owned
          /\ last'.arg \in Buffers(heap')]_vars

C17_Witness ==
    /\ last.op = "c_char_to_string"
    /\ last.text = <<65, 233>>
    /\ last.arg \in owned
    /\ heap[last.arg] = CString(<<65, 195, 169, 0>>)

\* C13: a message with an embedded NUL given to string_to_c_char, to err or (as
\* the error's display text) to From makes the call panic: it returns neither a
\* buffer nor an envelope, the message is not cut at the NUL, and nothing is
\* allocated, so no half-built envelope and no ExternError without owner is left.
C13_NulIsFatal ==
    [][(/\ last'.op \in {"string_to_c_char", "err", "from"}
        /\ \E i \in DOMAIN last'.msg : last'.msg[i] = 0) =>
           /\ last'.outcome = "panic"
           /\ crashed' = "panic"
           /\ last'.ptr = NULL
           /\ last'.env = NoEnv
           /\ heap' = heap
           /\ owned' = owned
           /\ Live(heap') \subseteq owned']_vars

\* err panicked on "A\0\u{e9}" while the consumer held an earlier error envelope
C13_Witness ==
    /\ last.op = "err"
    /\ last.msg = <<65, 0, 233>>
    /\ last.outcome = "panic"
    /\ \E p \in owned : heap[p].kind = "ExternResult" /\ heap[p].err \in owned

\* C14: ok_ptr(h) returns an envelope whose ok field is the pointer h itself and
\* whose err field is null; the envelope is the one allocation the call makes, and
\* the allocation behind h is neither copied nor freed nor changed.
C14_OkPtrWraps ==
    [][last'.op = "ok_ptr" =>
          /\ last'.outcome = "returned"
          /\ last'.ptr \in Addrs
          /\ heap'[last'.ptr] = ExternResult(last'.arg, NULL)
          /\ Allocated(heap, heap') = {last'.ptr}
          /\ \A a \in Addrs \ {last'.ptr} : heap'[a] = heap[a]
          /\ last'.arg \in Addrs => last'.arg \in Live(heap')]_vars

C14_Witness ==
    /\ ReturnedFrom("ok_ptr")
    /\ last.arg \in Addrs
    /\ last.fresh = {last.ptr}
    /\ heap[last.ptr].ok = last.arg
    /\ heap[last.arg] = BoxOf("T", 42)

\* C15: extern_result_destroy(envelope) frees the envelope and nothing else: the
\* payload, the ExternError and the message buffer its fields point to stay
\* allocated, unchanged, and still to be released by the consumer.
C15_DestroyIsShallow ==
    [][(last'.op = "extern_result_destroy" /\ last'.outcome = "freed") =>
          /\ heap[last'.arg].kind = "ExternResult"
          /\ heap'[last'.arg] = FreedCell
          /\ \A a \in Addrs \ {last'.arg} : heap'[a] = heap[a]
          /\ owned' = owned \ {last'.arg}]_vars

\* an error envelope was destroyed while its ExternError and message were live
C15_Witness ==
    /\ last.op = "extern_result_destroy"
    /\ last.outcome = "freed"
    /\ \E e \in owned :
          /\ heap[e].kind = "ExternError"
          /\ heap[e].message \in owned
          /\ heap[heap[e].message].kind = "CString"
    /\ \E b \in owned : heap[b].kind = "Box"

\* the allocations the consumer can get at from the handles it holds by reading
\* live allocations only
Within(h, held) ==
    LET inner(S) == S \cup UNION {Children(h, a) : a \in S \cap Live(h)}
    IN  inner(inner(held)) \cap Live(h)

\* the live allocations of the envelope at p: itself and what its fields lead to
Group(h, p) == ({p} \cup Reach(h, EnvelopeAt(h, p))) \cap Live(h)

\* the step released allocation a
ReleaseStep(a) ==
    /\ last'.arg = a
    /\ last'.outcome = "freed"
    /\ heap[a].kind # "freed"
    /\ heap'[a].kind = "freed"

\* the step released a, no allocation whose handle is stored in a being live
InnermostFirst(a) == ReleaseStep(a) /\ Children(heap, a) \cap Live(heap) = {}

\* err allocates the message buffer, then the ExternError, then the envelope
C16_AllocationOrder ==
    (last'.op = "err" /\ last'.outcome = "returned") =>
        LET p == last'.ptr
            e == heap'[p].err
        IN  /\ e \in Addrs
            /\ heap'[e].message \in Addrs
            /\ last'.fresh = {heap'[e].message, e, p}
            /\ heap'[e].message < e
            /\ e < p

\* while every release so far was innermost first, the consumer gets at each live
\* allocation through live allocations: it need not read, and cannot release, a
\* freed one
C16_InOrderIsSafe ==
    (crashed' = "no" /\ \A c \in Live(heap') :
                            heap'[c].kind # "ExternResult" =>
                                \E q \in Live(heap') : c \in Children(heap', q))
        => /\ Live(heap') \subseteq Within(heap', owned')
           /\ owned' \subseteq Live(heap')

\* releasing allocation a while an allocation c whose handle is stored in a is live
\* and its handle not yet read leaves c out of the consumer's reach, and only a
\* read of freed memory gives the handle of such a c
C16_OuterFirstLosesInner ==
    \A c \in Live(heap) \ owned :
        /\ (\E a \in Addrs : ReleaseStep(a) /\ c \in Children(heap, a))
               => c \notin Within(heap', owned')
        /\ (c \notin Within(heap, owned) /\ c \in owned') => last'.outcome = "stale"

\* C16 (as claimed): releases run in reverse order of allocation - a release made
\* innermost first frees the newest live allocation of its envelope; err allocates
\* message, ExternError, envelope; releasing in that order needs no read from and
\* makes no release of a freed allocation; releasing an outer allocation before
\* the handle stored in it was read loses the inner one or needs a freed read.
C16_ReverseOfAllocation ==
    [][/\ \A p \in Live(heap) : \A a \in Group(heap, p) :
              (heap[p].kind = "ExternResult" /\ InnermostFirst(a)) =>
                  \A b \in Group(heap, p) : b <= a
       /\ C16_AllocationOrder
       /\ C16_InOrderIsSafe
       /\ C16_OuterFirstLosesInner]_vars

\* C16 (amended): releases run innermost first, which is the order of allocation,
\* not its reverse - such a release frees the oldest live allocation of its
\* envelope; the rest as claimed.
C16_InnermostIsOldest ==
    [][/\ \A p \in Live(heap) : \A a \in Group(heap, p) :
              (heap[p].kind = "ExternResult" /\ InnermostFirst(a)) =>
                  \A b \in Group(heap, p) : a <= b
       /\ C16_AllocationOrder
       /\ C16_InOrderIsSafe
       /\ C16_OuterFirstLosesInner]_vars

\* the message of an error envelope was released first, the ExternError (read,
\* allocated after it) and the envelope (allocated last) are still live
C16_Witness ==
    /\ last.op = "destroy_c_char"
    /\ last.outcome = "freed"
    /\ \E p \in owned :
          /\ heap[p].kind = "ExternResult"
          /\ heap[p].err \in owned
          /\ heap[heap[p].err].kind = "ExternError"
          /\ heap[heap[p].err].message = last.arg
          /\ last.arg < heap[p].err
          /\ heap[p].err < p

\* the allocations of thread t: those it holds a handle to or has just made, and
\* those their fields lead to
Owns(t) == Within(heap, thr[t].held \cup ({thr[t].tmp} \cap Addrs))

\* C18: the calls share no mutable state: however the steps of two threads
\* interleave, the allocations of one are none of the other's, and a step of one
\* thread leaves every allocation of the other as it was.
C18_ThreadsApart ==
    [][/\ \A t \in Threads : \A u \in Threads \ {t} :
              /\ Owns(t) \cap Owns(u) = {}
              /\ thr'[u] = thr[u] => \A a \in Owns(u) : heap'[a] = heap[a]
       /\ \A t \in Threads : thr'[t].held \subseteq Live(heap')]_vars

\* thread 2 was given an envelope between two allocations of thread 1's err,
\* and thread 1 has read the handles of its envelope
C18_Witness ==
    \E p \in thr[1].held, q \in thr[2].held :
        /\ heap[p].kind = "ExternResult"
        /\ heap[p].err \in thr[1].held
        /\ heap[heap[p].err].message \in thr[1].held
        /\ heap[heap[p].err].message < q
        /\ q < p
        /\ heap[q].kind = "ExternResult"

====
